---- MODULE Spec2Model ----
(***************************************************************************)
(* Model of gallery/image_classification/image_classification.py:          *)
(* the KERAS_APPLICATIONS registry, KerasApplication.get_model (memoized   *)
(* with st.cache), KerasApplication.get_top_predictions, the two           *)
(* formatters and the Streamlit script main(), run by several sessions of  *)
(* one process.                                                            *)
(*                                                                         *)
(* Probabilities are fixed-point numbers: the integer p stands for         *)
(* p / ProbScale.  Text is a sequence of one-character strings.            *)
(***************************************************************************)
EXTENDS Integers, Sequences, FiniteSets, TLC

\* ------------------------------------------------------------------ bounds
NumSessions == 2      \* browser sessions (script threads) of the one process
NumSelectable == 2    \* how many registry entries the modelled users pick among
NumClasses == 6       \* classes of the modelled classifier head (ImageNet: 1000)
NumScores == 2        \* how many distinct forward-pass outputs are drawn

\* percent scale of both formatters ("prob * 100", "round(2) * 100")
Percent == 100

\* number of decimals the chart's probability column is rounded to
ChartDecimals == 2

\* number of entries imagenet_utils.decode_predictions keeps (its default top)
Top == 5

\* one probability unit is 1 / ProbScale: three digits finer than a percent
ProbScale == 1000 * Percent

Sessions == 1..NumSessions
Classes == 1..NumClasses

\* ------------------------------------------------------------------ text
LowerLetters ==
  << "a","b","c","d","e","f","g","h","i","j","k","l","m",
     "n","o","p","q","r","s","t","u","v","w","x","y","z" >>

UpperLetters ==
  << "A","B","C","D","E","F","G","H","I","J","K","L","M",
     "N","O","P","Q","R","S","T","U","V","W","X","Y","Z" >>

\* str.upper() on one character
Upper(c) ==
  IF \E i \in DOMAIN LowerLetters : LowerLetters[i] = c
    THEN UpperLetters[CHOOSE i \in DOMAIN LowerLetters : LowerLetters[i] = c]
    ELSE c

\* str.lower() on one character
Lower(c) ==
  IF \E i \in DOMAIN UpperLetters : UpperLetters[i] = c
    THEN LowerLetters[CHOOSE i \in DOMAIN UpperLetters : UpperLetters[i] = c]
    ELSE c

\* str.capitalize(): first character upper-cased, all the others lower-cased
Capitalize(str) ==
  [i \in DOMAIN str |-> IF i = 1 THEN Upper(str[i]) ELSE Lower(str[i])]

DigitChars == << "0","1","2","3","4","5","6","7","8","9" >>

RECURSIVE ToDigits(_)
\* decimal digits of a natural number, as format() writes them
ToDigits(n) ==
  IF n < 10 THEN << DigitChars[n + 1] >>
  ELSE ToDigits(n \div 10) \o << DigitChars[(n % 10) + 1] >>

\* round x / d to the nearest integer, ties to the even one (Python format(),
\* numpy.round)
RoundHalfEven(x, d) ==
  LET q == x \div d
      r == x % d
  IN IF 2 * r > d \/ (2 * r = d /\ q % 2 = 1) THEN q + 1 ELSE q

RECURSIVE Pow10(_)
Pow10(n) == IF n = 0 THEN 1 ELSE 10 * Pow10(n - 1)

\* ------------------------------------------------------------------ registry
DefaultShape == << 224, 224 >>

\* the NamedTuple KerasApplication
KerasApplication(name, keras_application, input_shape, preprocess_input_func, url) ==
  [name |-> name, keras_application |-> keras_application,
   input_shape |-> input_shape,
   preprocess_input_func |-> preprocess_input_func, url |-> url]

\* the defaults of the fields input_shape and preprocess_input_func
DefaultPreprocess == "imagenet_utils.preprocess_input"

\* mutant of KERAS_APPLICATIONS: an entry copied without renaming it
KERAS_APPLICATIONS_Copied ==
  << KerasApplication("ResNet50", "ResNet50", DefaultShape, DefaultPreprocess,
                      "https://keras.io/applications/#resnet"),
     KerasApplication("VGG16", "VGG16", DefaultShape, DefaultPreprocess,
                      "https://keras.io/applications/#vgg16"),
     KerasApplication("VGG16", "VGG19", DefaultShape, DefaultPreprocess,
                      "https://keras.io/applications/#vgg19"),
     KerasApplication("InceptionV3", "InceptionV3", << 299, 299 >>,
                      "inception_v3.preprocess_input",
                      "https://keras.io/applications/#inceptionv3"),
     KerasApplication("Xception", "Xception", << 299, 299 >>,
                      "inception_v3.preprocess_input",
                      "https://keras.io/applications/#xception"),
     KerasApplication("MobileNetV2", "MobileNetV2", DefaultShape,
                      DefaultPreprocess,
                      "https://keras.io/applications/#mobilenet") >>

KERAS_APPLICATIONS ==
  << KerasApplication("ResNet50", "ResNet50", DefaultShape, DefaultPreprocess,
                      "https://keras.io/applications/#resnet"),
     KerasApplication("VGG16", "VGG16", DefaultShape, DefaultPreprocess,
                      "https://keras.io/applications/#vgg16"),
     KerasApplication("VGG19", "VGG19", DefaultShape, DefaultPreprocess,
                      "https://keras.io/applications/#vgg19"),
     KerasApplication("InceptionV3", "InceptionV3", << 299, 299 >>,
                      "inception_v3.preprocess_input",
                      "https://keras.io/applications/#inceptionv3"),
     KerasApplication("Xception", "Xception", << 299, 299 >>,
                      "inception_v3.preprocess_input",
                      "https://keras.io/applications/#xception"),
     KerasApplication("MobileNetV2", "MobileNetV2", DefaultShape,
                      DefaultPreprocess,
                      "https://keras.io/applications/#mobilenet") >>

Profiles == DOMAIN KERAS_APPLICATIONS

\* the order in which the modelled users try the options of the select box;
\* the first one is the select box's default (index 0 of the options)
SelectOrder == << 1, 4, 2, 5, 3, 6 >>

Selectable ==
  { SelectOrder[i] : i \in { j \in DOMAIN SelectOrder : j <= NumSelectable } }

\* ------------------------------------------------------------------ library
\* (wnid, label) of the classes, as imagenet_utils.decode_predictions names them
CLASS_INDEX ==
  << << "n01440764", << "t","e","n","c","h" >> >>,
     << "n02124075", << "E","g","y","p","t","i","a","n","_","c","a","t" >> >>,
     << "n02786058", << "B","a","n","d","_","A","i","d" >> >>,
     << "n03584254", << "i","P","o","d" >> >>,
     << "n02123045", << "t","a","b","b","y" >> >>,
     << "n04591157", << "W","i","n","d","s","o","r","_","t","i","e" >> >>,
     << "n01443537", << "g","o","l","d","f","i","s","h" >> >>,
     << "n02085620", << "C","h","i","h","u","a","h","u","a" >> >>,
     << "n03124170", << "c","o","w","b","o","y","_","h","a","t" >> >> >>

ClassEntry(c) == CLASS_INDEX[((c - 1) % Len(CLASS_INDEX)) + 1]

RECURSIVE SumOver(_, _)
\* sum of f over the finite set S
SumOver(f, S) ==
  IF S = {} THEN 0
  ELSE LET x == CHOOSE y \in S : TRUE IN f[x] + SumOver(f, S \ {x})

\* forward-pass outputs (softmax vectors) the modelled network can give:
\* one peaked at class k with all the other classes distinct, and a flat one
\* (all classes tied)
StepProb == 1234

Peaked(k) ==
  LET low == [c \in Classes |-> c * StepProb]
  IN [c \in Classes |->
        IF c = k THEN ProbScale - SumOver(low, Classes \ {k}) ELSE low[c]]

Flat == [c \in Classes |-> ProbScale \div NumClasses]

Scores ==
  { Peaked(k) : k \in { c \in Classes : c <= NumScores - 1 } } \cup { Flat }

RECURSIVE TopOf(_, _, _)
\* the k most probable classes of S, most probable first (argsort, last k,
\* reversed: of two tied classes the one with the higher index comes first)
TopOf(pred, S, k) ==
  IF k = 0 \/ S = {} THEN << >>
  ELSE LET best == CHOOSE c \in S :
                     \A d \in S : pred[d] < pred[c] \/ (pred[d] = pred[c] /\ d <= c)
       IN << << ClassEntry(best)[1], ClassEntry(best)[2], pred[best] >> >>
            \o TopOf(pred, S \ {best}, k - 1)

\* imagenet_utils.decode_predictions(preds): one top list per sample of the batch
decode_predictions(preds) ==
  [i \in DOMAIN preds |-> TopOf(preds[i], DOMAIN preds[i], Top)]

\* ------------------------------------------------------------------ values
NoModel == [arch |-> "", weights |-> "", id |-> 0]
NoImage == [kind |-> "none", size |-> << 0, 0 >>, bands |-> 0]
NoTensor == [shape |-> << >>, mode |-> ""]
NoChart == [data |-> << >>, mark |-> "", sort |-> ""]

\* files a user can upload: a JPEG, a PNG with an alpha channel, and bytes
\* that are no image
Files ==
  { [kind |-> "file", name |-> "photo.jpg", decodable |-> TRUE,
     size |-> << 640, 480 >>, bands |-> 3],
    [kind |-> "file", name |-> "logo.png", decodable |-> TRUE,
     size |-> << 32, 32 >>, bands |-> 4],
    [kind |-> "file", name |-> "broken.jpg", decodable |-> FALSE,
     size |-> << 0, 0 >>, bands |-> 0] }

NoFile == [kind |-> "none", name |-> "", decodable |-> FALSE,
           size |-> << 0, 0 >>, bands |-> 0]

\* PIL.Image.open on a decodable file
ImageOpen(f) == [kind |-> "image", size |-> f.size, bands |-> f.bands]

\* ------------------------------------------------------------------ KerasApplication
\* to_input_shape: image.resize(self.input_shape)
to_input_shape(self, image) == [image EXCEPT !.size = self.input_shape]

\* preprocess_input: resize, img_to_array (height, width, bands), expand_dims
\* (a leading batch axis of 1), then the profile's normalisation
preprocess_input(self, image) ==
  LET resized == to_input_shape(self, image)
  IN [shape |-> << 1, resized.size[2], resized.size[1], resized.bands >>,
      mode |-> self.preprocess_input_func]

\* mutant of get_model_body: the network built without the pretrained weights
get_model_body_Untrained(self, n) ==
  [arch |-> self.keras_application, weights |-> "None", id |-> n]

\* the body of get_model: self.keras_application(weights="imagenet");
\* n tells this instance from the other instances of the process
get_model_body(self, n) ==
  [arch |-> self.keras_application, weights |-> "imagenet", id |-> n]

\* mutant of to_main_prediction_string: the last entry taken for the top one
to_main_prediction_string_Last(predictions) ==
  LET prediction == predictions[Len(predictions)][2]
      prob == predictions[Len(predictions)][3]
  IN << "It's a **" >> \o Capitalize(prediction)
       \o << "** with probability " >>
       \o ToDigits(RoundHalfEven(prob * Percent, ProbScale)) \o << "%" >>

\* to_main_prediction_string(predictions)
to_main_prediction_string(predictions) ==
  LET prediction == predictions[1][2]
      prob == predictions[1][3]
  IN << "It's a **" >> \o Capitalize(prediction)
       \o << "** with probability " >>
       \o ToDigits(RoundHalfEven(prob * Percent, ProbScale)) \o << "%" >>

RECURSIVE SortedRows(_, _)
\* the rows of the data frame in the order the chart's y axis presents them:
\* sorted by the probability column, descending (rows that tie keep their order)
SortedRows(rows, todo) ==
  IF todo = {} THEN << >>
  ELSE LET i == CHOOSE a \in todo :
                  \A b \in todo :
                    rows[b].probability < rows[a].probability
                      \/ (rows[b].probability = rows[a].probability /\ a <= b)
       IN << rows[i] >> \o SortedRows(rows, todo \ {i})

\* mutant of to_predictions_chart: the column scaled to percent first and
\* rounded to 2 decimals after
to_predictions_chart_ScaledFirst(predictions) ==
  LET dataframe ==
        [i \in DOMAIN predictions |->
           [id |-> predictions[i][1],
            prediction |-> predictions[i][2],
            probability |->
              RoundHalfEven(predictions[i][3] * Percent * Pow10(ChartDecimals),
                            ProbScale)]]
  IN [data |-> dataframe, mark |-> "bar", sort |-> "descending"]

\* to_predictions_chart(predictions): the data frame with the probability
\* column rounded to 2 decimals and then multiplied by 100, in a bar chart
\* whose y axis is sorted by probability, descending.  A probability of the
\* data frame is in hundredths of a percent (8700 is 87.00).
to_predictions_chart(predictions) ==
  LET dataframe ==
        [i \in DOMAIN predictions |->
           [id |-> predictions[i][1],
            prediction |-> predictions[i][2],
            probability |->
              RoundHalfEven(predictions[i][3] * Pow10(ChartDecimals), ProbScale)
                * Percent]]
  IN [data |-> dataframe, mark |-> "bar", sort |-> "descending"]

\* the rows of a chart as displayed
Presented(chart) == SortedRows(chart.data, DOMAIN chart.data)

\* mutant of report_progress: the value 0 empties the bar and leaves the message
report_progress_MessageKept(ui, message, value) ==
  IF value = 0
    THEN [progress_bar |-> 0, progress |-> ui.progress]
    ELSE [progress_bar |-> value, progress |-> message]

\* report_progress(message, value) of main, on the two placeholders
\* ui = [progress_bar, progress]; 0 and << >> stand for an empty placeholder
report_progress(ui, message, value) ==
  IF value = 0
    THEN [progress_bar |-> 0, progress |-> << >>]
    ELSE [progress_bar |-> value, progress |-> message]

\* ------------------------------------------------------------------ state
VARIABLES
  registry,        \* the module-level list KERAS_APPLICATIONS
  cache,           \* st.cache's memory of get_model: profile -> handle
  loads,           \* per profile, how many networks were instantiated
  firstReturned,   \* per profile, the handle its first completed get_model gave
  overlapped,      \* per profile, whether two first calls ever overlapped
  widgets,         \* per session: the select box and the file uploader
  run,             \* per session: the script run (position and locals)
  page             \* per session: what the browser shows

vars == << registry, cache, loads, firstReturned, overlapped, widgets, run, page >>

\* progress values reported by get_top_predictions
LoadingValue == 10
ProcessingValue == 67
ClassifyingValue == 85
DoneValue == 0

LoadingMessage(self) == << "Loading ", self.name, " model ... " >>
ProcessingMessage == << "Processing image ... " >>
ClassifyingMessage(self) == << "Classifying image with '", self.name, "'... " >>

\* entries of a run's log: a progress report with its value, or a completed step
Reported(value) == [what |-> "report", value |-> value]
Called(step) == [what |-> step, value |-> -1]

FreshRun ==
  [pc |-> "main", selected_model |-> 0, image |-> NoImage, model |-> NoModel,
   created |-> NoModel, tensor |-> NoTensor, raw_predictions |-> << >>,
   top_predictions |-> << >>, predictions |-> << >>, failed_at |-> "",
   log |-> << >>]

FreshPage ==
  [uploaded_image |-> FALSE, progress_bar |-> 0, progress |-> << >>,
   main_prediction |-> << >>, predictions_chart |-> NoChart,
   exception |-> FALSE]

Init ==
  /\ registry = KERAS_APPLICATIONS
  /\ cache = [m \in Profiles |-> NoModel]
  /\ loads = [m \in Profiles |-> 0]
  /\ firstReturned = [m \in Profiles |-> NoModel]
  /\ overlapped = [m \in Profiles |-> FALSE]
  /\ widgets = [s \in Sessions |-> [selectbox |-> SelectOrder[1],
                                    file_uploader |-> NoFile]]
  /\ run = [s \in Sessions |-> FreshRun]
  /\ page = [s \in Sessions |-> FreshPage]

Self(s) == registry[run[s].selected_model]

\* a script run is over: it reached the end of main or died with an exception
Over(s) == run[s].pc \in { "ended", "error" }

\* the session is inside the uncached part of get_model on profile m
Loading(s, m) ==
  /\ run[s].pc \in { "instantiate", "cache_write" }
  /\ run[s].selected_model = m

\* ------------------------------------------------------------------ the user
\* picking another option of the select box reruns the script
SelectModel(s, m) ==
  /\ Over(s)
  /\ m # widgets[s].selectbox
  /\ widgets' = [widgets EXCEPT ![s].selectbox = m]
  /\ run' = [run EXCEPT ![s] = FreshRun]
  /\ page' = [page EXCEPT ![s] = FreshPage]
  /\ UNCHANGED << registry, cache, loads, firstReturned, overlapped >>

\* uploading a file (or removing it: f = NoFile) reruns the script
UploadFile(s, f) ==
  /\ Over(s)
  /\ f # widgets[s].file_uploader
  /\ widgets' = [widgets EXCEPT ![s].file_uploader = f]
  /\ run' = [run EXCEPT ![s] = FreshRun]
  /\ page' = [page EXCEPT ![s] = FreshPage]
  /\ UNCHANGED << registry, cache, loads, firstReturned, overlapped >>

\* ------------------------------------------------------------------ main
\* mutant of Main: the test "if image:" left out
Main_NoGate(s) ==
  /\ run[s].pc = "main"
  /\ run' = [run EXCEPT ![s].selected_model = widgets[s].selectbox,
                        ![s].pc = "open"]
  /\ UNCHANGED << registry, cache, loads, firstReturned, overlapped, widgets,
                  page >>

\* main up to "if image:": reads the two widgets; without a file the run ends
Main(s) ==
  /\ run[s].pc = "main"
  /\ run' = [run EXCEPT ![s].selected_model = widgets[s].selectbox,
                        ![s].pc = IF widgets[s].file_uploader # NoFile
                                    THEN "open" ELSE "ended"]
  /\ UNCHANGED << registry, cache, loads, firstReturned, overlapped, widgets,
                  page >>

\* st.image, Image.open and the two st.empty placeholders; bytes that are no
\* image raise
OpenImage(s) ==
  /\ run[s].pc = "open"
  /\ IF widgets[s].file_uploader.decodable
       THEN /\ run' = [run EXCEPT ![s].image = ImageOpen(widgets[s].file_uploader),
                                  ![s].pc = "report_loading"]
            /\ page' = [page EXCEPT ![s].uploaded_image = TRUE,
                                    ![s].progress_bar = 0,
                                    ![s].progress = << >>]
       ELSE /\ run' = [run EXCEPT ![s].pc = "error", ![s].failed_at = "open"]
            /\ page' = [page EXCEPT ![s].exception = TRUE]
  /\ UNCHANGED << registry, cache, loads, firstReturned, overlapped, widgets >>

\* one call of report_progress_func from get_top_predictions
Report(s, message, value, next) ==
  LET ui == report_progress([progress_bar |-> page[s].progress_bar,
                             progress |-> page[s].progress], message, value)
  IN /\ page' = [page EXCEPT ![s].progress_bar = ui.progress_bar,
                             ![s].progress = ui.progress]
     /\ run' = [run EXCEPT ![s].log = Append(@, Reported(value)), ![s].pc = next]
     /\ UNCHANGED << registry, cache, loads, firstReturned, overlapped, widgets >>

\* ------------------------------------------------------------------ get_top_predictions
ReportLoading(s) ==
  /\ run[s].pc = "report_loading"
  /\ Report(s, LoadingMessage(Self(s)), LoadingValue, "get_model")

\* get_model under st.cache: the look-up.  A cached handle is returned; on a
\* miss the function body runs (no lock is held across it)
GetModel(s) ==
  LET m == run[s].selected_model
  IN /\ run[s].pc = "get_model"
     /\ IF cache[m] # NoModel
          THEN /\ run' = [run EXCEPT ![s].model = cache[m],
                                     ![s].log = Append(@, Called("get_model")),
                                     ![s].pc = "report_processing"]
               /\ firstReturned' =
                    [firstReturned EXCEPT
                       ![m] = IF @ = NoModel THEN cache[m] ELSE @]
               /\ UNCHANGED overlapped
          ELSE /\ run' = [run EXCEPT ![s].pc = "instantiate"]
               /\ overlapped' =
                    [overlapped EXCEPT
                       ![m] = @ \/ \E t \in Sessions \ {s} : Loading(t, m)]
               /\ UNCHANGED firstReturned
     /\ UNCHANGED << registry, cache, loads, widgets, page >>

\* get_model's body: the network is instantiated with the ImageNet weights
Instantiate(s) ==
  LET m == run[s].selected_model
  IN /\ run[s].pc = "instantiate"
     /\ loads' = [loads EXCEPT ![m] = @ + 1]
     /\ run' = [run EXCEPT ![s].created = get_model_body(Self(s), loads[m] + 1),
                           ![s].pc = "cache_write"]
     /\ UNCHANGED << registry, cache, firstReturned, overlapped, widgets, page >>

\* mutant of CacheWrite: the handle is returned and not stored
CacheWrite_Lost(s) ==
  LET m == run[s].selected_model
  IN /\ run[s].pc = "cache_write"
     /\ run' = [run EXCEPT ![s].model = run[s].created,
                           ![s].log = Append(@, Called("get_model")),
                           ![s].pc = "report_processing"]
     /\ firstReturned' =
          [firstReturned EXCEPT
             ![m] = IF @ = NoModel THEN run[s].created ELSE @]
     /\ UNCHANGED << registry, cache, loads, overlapped, widgets, page >>

\* st.cache stores what the body returned and get_model returns it
CacheWrite(s) ==
  LET m == run[s].selected_model
  IN /\ run[s].pc = "cache_write"
     /\ cache' = [cache EXCEPT ![m] = run[s].created]
     /\ run' = [run EXCEPT ![s].model = run[s].created,
                           ![s].log = Append(@, Called("get_model")),
                           ![s].pc = "report_processing"]
     /\ firstReturned' =
          [firstReturned EXCEPT
             ![m] = IF @ = NoModel THEN run[s].created ELSE @]
     /\ UNCHANGED << registry, loads, overlapped, widgets, page >>

ReportProcessing(s) ==
  /\ run[s].pc = "report_processing"
  /\ Report(s, ProcessingMessage, ProcessingValue, "preprocess_input")

PreprocessInput(s) ==
  /\ run[s].pc = "preprocess_input"
  /\ run' = [run EXCEPT ![s].tensor = preprocess_input(Self(s), run[s].image),
                        ![s].log = Append(@, Called("preprocess_input")),
                        ![s].pc = "report_classifying"]
  /\ UNCHANGED << registry, cache, loads, firstReturned, overlapped, widgets,
                  page >>

ReportClassifying(s) ==
  /\ run[s].pc = "report_classifying"
  /\ Report(s, ClassifyingMessage(Self(s)), ClassifyingValue, "predict")

\* model.predict(image): a batch of one softmax vector; a tensor that has not
\* three colour bands does not fit the network's input and raises
Predict(s) ==
  /\ run[s].pc = "predict"
  /\ IF run[s].tensor.shape[4] = 3
       THEN /\ \E v \in Scores :
                 run' = [run EXCEPT ![s].raw_predictions = << v >>,
                                    ![s].log = Append(@, Called("predict")),
                                    ![s].pc = "decode_predictions"]
            /\ UNCHANGED page
       ELSE /\ run' = [run EXCEPT ![s].pc = "error", ![s].failed_at = "predict"]
            /\ page' = [page EXCEPT ![s].exception = TRUE]
  /\ UNCHANGED << registry, cache, loads, firstReturned, overlapped, widgets >>

DecodePredictions(s) ==
  /\ run[s].pc = "decode_predictions"
  /\ run' = [run EXCEPT
               ![s].top_predictions = decode_predictions(run[s].raw_predictions),
               ![s].log = Append(@, Called("decode_predictions")),
               ![s].pc = "report_done"]
  /\ UNCHANGED << registry, cache, loads, firstReturned, overlapped, widgets,
                  page >>

\* mutant of ReportDone: the closing report left out
ReportDone_Missing(s) ==
  /\ run[s].pc = "report_done"
  /\ run' = [run EXCEPT ![s].pc = "return"]
  /\ UNCHANGED << registry, cache, loads, firstReturned, overlapped, widgets,
                  page >>

ReportDone(s) ==
  /\ run[s].pc = "report_done"
  /\ Report(s, << >>, DoneValue, "return")

\* mutant of ReturnTopPredictions: the list returned without its first entry
ReturnTopPredictions_Tail(s) ==
  /\ run[s].pc = "return"
  /\ run' = [run EXCEPT ![s].predictions = Tail(run[s].top_predictions[1]),
                        ![s].log = Append(@, Called("return")),
                        ![s].pc = "main_prediction"]
  /\ UNCHANGED << registry, cache, loads, firstReturned, overlapped, widgets,
                  page >>

\* return top_predictions[0], assigned to predictions in main
ReturnTopPredictions(s) ==
  /\ run[s].pc = "return"
  /\ run' = [run EXCEPT ![s].predictions = run[s].top_predictions[1],
                        ![s].log = Append(@, Called("return")),
                        ![s].pc = "main_prediction"]
  /\ UNCHANGED << registry, cache, loads, firstReturned, overlapped, widgets,
                  page >>

\* ------------------------------------------------------------------ main, after the call
MainPrediction(s) ==
  /\ run[s].pc = "main_prediction"
  /\ page' = [page EXCEPT
                ![s].main_prediction =
                   to_main_prediction_string(run[s].predictions)]
  /\ run' = [run EXCEPT ![s].pc = "predictions_chart"]
  /\ UNCHANGED << registry, cache, loads, firstReturned, overlapped, widgets >>

PredictionsChart(s) ==
  /\ run[s].pc = "predictions_chart"
  /\ page' = [page EXCEPT
                ![s].predictions_chart = to_predictions_chart(run[s].predictions)]
  /\ run' = [run EXCEPT ![s].pc = "ended"]
  /\ UNCHANGED << registry, cache, loads, firstReturned, overlapped, widgets >>

\* ------------------------------------------------------------------ failures
\* the library calls of get_top_predictions (weights that cannot be fetched,
\* a truncated image, an error inside the library); nothing catches what they
\* raise, so the exception ends the script run
LibraryCalls ==
  { "instantiate", "preprocess_input", "predict", "decode_predictions" }

\* mutant of Raise: the failure is caught and the step tried again
Raise_Retried(s) ==
  /\ run[s].pc \in LibraryCalls
  /\ run[s].failed_at = ""
  /\ run' = [run EXCEPT ![s].failed_at = run[s].pc]
  /\ UNCHANGED << registry, cache, loads, firstReturned, overlapped, widgets,
                  page >>

Raise(s) ==
  /\ run[s].pc \in LibraryCalls
  /\ run' = [run EXCEPT ![s].pc = "error", ![s].failed_at = run[s].pc]
  /\ page' = [page EXCEPT ![s].exception = TRUE]
  /\ UNCHANGED << registry, cache, loads, firstReturned, overlapped, widgets >>

\* ------------------------------------------------------------------ specification
Next ==
  \E s \in Sessions :
    \/ \E m \in Selectable : SelectModel(s, m)
    \/ \E f \in Files \cup { NoFile } : UploadFile(s, f)
    \/ Main(s)
    \/ OpenImage(s)
    \/ ReportLoading(s)
    \/ GetModel(s)
    \/ Instantiate(s)
    \/ CacheWrite(s)
    \/ ReportProcessing(s)
    \/ PreprocessInput(s)
    \/ ReportClassifying(s)
    \/ Predict(s)
    \/ DecodePredictions(s)
    \/ ReportDone(s)
    \/ ReturnTopPredictions(s)
    \/ MainPrediction(s)
    \/ PredictionsChart(s)
    \/ Raise(s)

Spec == Init /\ [][Next]_vars

\* ------------------------------------------------------------------ the formatters alone
\* The two formatters on prediction lists of a stubbed profile: session 1 is
\* past the call of get_top_predictions with any list of at most MaxLen entries.
MaxLen == 2

FmtClasses ==
  { << "n01", << "c","a","t" >> >>,
    << "n02", << "d","o","g" >> >>,
    << "n03", << "i","P","o","d" >> >> }

FmtProbs == { 0, 500, 5000, 12500, 87000, 87654, ProbScale }

FmtEntries == { << c[1], c[2], p >> : c \in FmtClasses, p \in FmtProbs }

FmtLists ==
  UNION { [1..n -> FmtEntries] : n \in 0..MaxLen }

FmtInit ==
  /\ registry = KERAS_APPLICATIONS
  /\ cache = [m \in Profiles |-> NoModel]
  /\ loads = [m \in Profiles |-> 0]
  /\ firstReturned = [m \in Profiles |-> NoModel]
  /\ overlapped = [m \in Profiles |-> FALSE]
  /\ widgets = [s \in Sessions |-> [selectbox |-> SelectOrder[1],
                                    file_uploader |-> NoFile]]
  /\ page = [s \in Sessions |-> FreshPage]
  /\ \E l \in FmtLists :
       run = [s \in Sessions |->
                IF s = 1
                  THEN [FreshRun EXCEPT
                          !.selected_model = SelectOrder[1],
                          !.predictions = l,
                          !.pc = IF l = << >> THEN "predictions_chart"
                                 ELSE "main_prediction"]
                  ELSE [FreshRun EXCEPT !.pc = "ended"]]

FmtNext ==
  \E s \in Sessions :
    \/ MainPrediction(s)
    \/ PredictionsChart(s)

SpecFmt == FmtInit /\ [][FmtNext]_vars

\* ------------------------------------------------------------------ claims
Abs(x) == IF x < 0 THEN -x ELSE x

\* a probability of the chart (hundredths of a percent) in probability units
ChartUnit == ProbScale \div (Percent * Percent)

\* the chart of session s is on the page
ChartShown(s) == page[s].predictions_chart # NoChart

\* the chart has one row per prediction, with the prediction's id and label
OneRowPerPrediction(s) ==
  LET data == page[s].predictions_chart.data
      predictions == run[s].predictions
  IN /\ DOMAIN data = DOMAIN predictions
     /\ \A i \in DOMAIN data :
          /\ data[i].id = predictions[i][1]
          /\ data[i].prediction = predictions[i][2]

\* the chart presents its rows by non-increasing probability, and presents
\* exactly its rows
PresentedDescending(s) ==
  LET shown == Presented(page[s].predictions_chart)
      data == page[s].predictions_chart.data
  IN /\ page[s].predictions_chart.sort = "descending"
     /\ Len(shown) = Len(data)
     /\ \A i \in DOMAIN data :
          Cardinality({ j \in DOMAIN shown : shown[j] = data[i] })
            = Cardinality({ j \in DOMAIN data : data[j] = data[i] })
     /\ \A i \in DOMAIN shown : \A j \in DOMAIN shown :
          i < j => shown[i].probability >= shown[j].probability

\* C6 as stated: every row holds the probability in percent rounded to 2
\* decimals (0.87654 gives 87.65), one row per prediction, presented sorted
\* descending.
C6_Original ==
  \A s \in Sessions :
    ChartShown(s) =>
      /\ OneRowPerPrediction(s)
      /\ PresentedDescending(s)
      /\ \A i \in DOMAIN run[s].predictions :
           page[s].predictions_chart.data[i].probability
             = RoundHalfEven(run[s].predictions[i][3], ChartUnit)

\* C6 (amended): to_predictions_chart gives one row per prediction with its
\* label and the probability rounded to 2 decimals and then scaled to percent,
\* that is a whole number of percent nearest to the probability (0.87654
\* gives 88.0, 0.87 gives 87.0, 0.05 gives 5.0), presented sorted descending
\* by that value.
C6_ChartRows ==
  \A s \in Sessions :
    ChartShown(s) =>
      /\ OneRowPerPrediction(s)
      /\ PresentedDescending(s)
      /\ \A i \in DOMAIN run[s].predictions :
           LET shown == page[s].predictions_chart.data[i].probability
           IN /\ shown % Percent = 0
              /\ 2 * Abs(shown * ChartUnit - run[s].predictions[i][3])
                   <= ChartUnit * Percent

\* C6 (amended), second half: rendering the chart leaves the prediction list
\* it was given as it was.
C6_InputKept ==
  \A s \in Sessions :
    (run[s].pc = "predictions_chart" /\ ChartShown(s)')
      => run[s].predictions' = run[s].predictions

\* C6 (amended): one row per prediction with the label and the probability
\* rounded to 2 decimals, then scaled to percent; presented sorted descending;
\* the prediction list is left as it was.
C6_Amended == [](C6_ChartRows) /\ [][C6_InputKept]_vars

\* the spec's example: [(n01, cat, 0.87), (n02, dog, 0.05)] gives two rows,
\* 87.0 then 5.0
C6_Witness ==
  /\ run[1].predictions = << << "n01", << "c","a","t" >>, 87000 >>,
                             << "n02", << "d","o","g" >>, 5000 >> >>
  /\ ChartShown(1)
  /\ Len(Presented(page[1].predictions_chart)) = 2
  /\ Presented(page[1].predictions_chart)[1].probability = 87 * Percent
  /\ Presented(page[1].predictions_chart)[2].probability = 5 * Percent

\* the main prediction of session s is on the page
MainShown(s) == page[s].main_prediction # << >>

\* C7: to_main_prediction_string names the first entry's label, capitalized,
\* with that entry's probability rounded to the nearest whole percent, and
\* nothing of the other entries.
C7_MainPrediction ==
  \A s \in Sessions :
    MainShown(s) =>
      LET label == run[s].predictions[1][2]
          prob == run[s].predictions[1][3]
          named == [i \in DOMAIN label |->
                      IF i = 1 THEN Upper(label[i]) ELSE Lower(label[i])]
      IN \E pct \in 0..Percent :
           /\ 2 * Abs(pct * ProbScale - prob * Percent) <= ProbScale
           /\ page[s].main_prediction
                = << "It's a **" >> \o named \o << "** with probability " >>
                    \o ToDigits(pct) \o << "%" >>

\* the spec's example: label cat with 0.87, followed by (dog, 0.05), gives a
\* text with "Cat" and "87%"
C7_Witness ==
  /\ run[1].predictions = << << "n01", << "c","a","t" >>, 87000 >>,
                             << "n02", << "d","o","g" >>, 5000 >> >>
  /\ page[1].main_prediction
       = << "It's a **", "C", "a", "t", "** with probability ", "8", "7", "%" >>

\* ------------------------------------------------------------------ claims on the application
\* session s holds a handle that get_model returned on profile m
Holds(s, m) == run[s].model # NoModel /\ run[s].selected_model = m

\* s takes a step of get_model that finds a handle cached
HitStep(s) ==
  /\ run[s].pc = "get_model"
  /\ run'[s].pc # "get_model"
  /\ cache[run[s].selected_model] # NoModel

\* C1 as stated: the network of a profile is instantiated at most once, and
\* every get_model call on the profile returns the handle the first call
\* returned.
C1_Original ==
  \A m \in Profiles :
    /\ loads[m] <= 1
    /\ \A s \in Sessions : Holds(s, m) => run[s].model = firstReturned[m]

\* C1 (amended), the state part: no session instantiates a profile's network
\* more than once, and while no two first calls on the profile have
\* overlapped it is instantiated at most once and every call returned the
\* handle the first call returned.
C1_AtMostOnce ==
  \A m \in Profiles :
    /\ loads[m] <= NumSessions
    /\ ~overlapped[m] =>
         /\ loads[m] <= 1
         /\ \A s \in Sessions : Holds(s, m) => run[s].model = firstReturned[m]

\* C1 (amended), the step part: a get_model call that finds a handle cached
\* returns that very handle and instantiates nothing.
C1_HitReturnsCached ==
  \A s \in Sessions :
    HitStep(s) =>
      /\ run'[s].model = cache[run[s].selected_model]
      /\ loads' = loads
      /\ cache' = cache

\* C1 (amended): a profile's network is instantiated at most once, and every
\* call returns the first call's handle, as long as no two first calls on the
\* profile overlap (never more than once per session); a call that finds a
\* handle cached returns it and instantiates nothing.
C1_Amended == [](C1_AtMostOnce) /\ [][C1_HitReturnsCached]_vars

\* two sessions were served, one after the other, by one instantiation
C1_Witness ==
  \E m \in Profiles :
    /\ ~overlapped[m]
    /\ loads[m] = 1
    /\ \A s \in Sessions : Holds(s, m) /\ run[s].model = firstReturned[m]
    /\ \E s \in Sessions : Len(run[s].log) = 2 /\ run[s].pc = "report_processing"

\* the complete log of a successful call of get_top_predictions
FullLog ==
  << Reported(LoadingValue), Called("get_model"),
     Reported(ProcessingValue), Called("preprocess_input"),
     Reported(ClassifyingValue), Called("predict"), Called("decode_predictions"),
     Reported(DoneValue), Called("return") >>

Reports(log) == SelectSeq(log, LAMBDA e : e.what = "report")

Returned(s) == \E i \in DOMAIN run[s].log : run[s].log[i].what = "return"

\* C2: the reports of a call come in the order 10, get_model, 67,
\* preprocess_input, 85, predict, decode, 0, return; a call that returned made
\* exactly these four reports, the 0 last.
C2_ProgressOrder ==
  \A s \in Sessions :
    /\ Len(run[s].log) <= Len(FullLog)
    /\ \A i \in DOMAIN run[s].log : run[s].log[i] = FullLog[i]
    /\ Returned(s) =>
         /\ Len(Reports(run[s].log)) = 4
         /\ [i \in 1..4 |-> Reports(run[s].log)[i].value]
              = << LoadingValue, ProcessingValue, ClassifyingValue, DoneValue >>
         /\ << LoadingValue, ProcessingValue, ClassifyingValue, DoneValue >>
              = << 10, 67, 85, 0 >>

C2_Witness ==
  /\ Returned(1)
  /\ run[1].predictions # << >>
  /\ Len(Reports(run[1].log)) = 4

\* position of a script run, in the order main goes through
Rank(pc) ==
  CASE pc = "main" -> 0
    [] pc = "open" -> 1
    [] pc = "report_loading" -> 2
    [] pc = "get_model" -> 3
    [] pc = "instantiate" -> 4
    [] pc = "cache_write" -> 5
    [] pc = "report_processing" -> 6
    [] pc = "preprocess_input" -> 7
    [] pc = "report_classifying" -> 8
    [] pc = "predict" -> 9
    [] pc = "decode_predictions" -> 10
    [] pc = "report_done" -> 11
    [] pc = "return" -> 12
    [] pc = "main_prediction" -> 13
    [] pc = "predictions_chart" -> 14
    [] pc = "ended" -> 15
    [] OTHER -> 16

\* the controller's state, read off the run
Stage(s) ==
  CASE run[s].pc = "error" -> "failed"
    [] run[s].pc = "main" -> "model-selected"
    [] run[s].pc = "ended" /\ widgets[s].file_uploader = NoFile -> "model-selected"
    [] run[s].pc = "open" -> "image-uploaded"
    [] Rank(run[s].pc) \in 2..12 -> "classifying"
    [] OTHER -> "results-shown"

StageRank(stage) ==
  CASE stage = "model-selected" -> 1
    [] stage = "image-uploaded" -> 2
    [] stage = "classifying" -> 3
    [] stage = "results-shown" -> 4
    [] OTHER -> 5

\* C3, the state part: get_top_predictions is entered only with a file
\* uploaded and on the model the select box shows; the main prediction and
\* the chart are on the page only after the call returned; without a file the
\* run ends at once, with no call and nothing rendered.
C3_Gate ==
  \A s \in Sessions :
    /\ Rank(run[s].pc) \in 2..14 \/ run[s].log # << >> =>
         /\ widgets[s].file_uploader # NoFile
         /\ run[s].selected_model = widgets[s].selectbox
    /\ MainShown(s) \/ ChartShown(s) =>
         /\ Returned(s)
         /\ Stage(s) = "results-shown"
    /\ widgets[s].file_uploader = NoFile =>
         /\ run[s].pc \in { "main", "ended" }
         /\ run[s].log = << >>
         /\ run[s].predictions = << >>
         /\ ~MainShown(s)
         /\ ~ChartShown(s)

\* C3, the step part: within a script run the controller only moves forward;
\* only a new run (the user picked a model or a file) starts over.
C3_Forward ==
  \A s \in Sessions :
    run'[s] # run[s] =>
      \/ /\ Over(s)
         /\ run'[s] = FreshRun
      \/ /\ ~Over(s)
         /\ Rank(run'[s].pc) > Rank(run[s].pc)
         /\ StageRank(Stage(s)') >= StageRank(Stage(s))

\* C3: get_top_predictions runs only with a file uploaded, on the selected
\* model; results are rendered only after it returned; without a file the run
\* ends without classifying; a script run only moves forward.
C3_Controller == [](C3_Gate) /\ [][C3_Forward]_vars

\* one session shows its results, the other ended a run without a file
C3_Witness ==
  /\ run[1].pc = "ended" /\ MainShown(1) /\ ChartShown(1)
  /\ widgets[1].selectbox # SelectOrder[1]
  /\ run[2].pc = "ended" /\ widgets[2].file_uploader = NoFile

\* C4, the state part: a failure ends the run with the exception on the page:
\* the step that failed is not in the log, no prediction list came back and
\* neither the main prediction nor the chart is rendered.
C4_Propagates ==
  \A s \in Sessions :
    /\ run[s].failed_at # "" <=> run[s].pc = "error"
    /\ run[s].pc = "error" =>
         /\ page[s].exception
         /\ run[s].predictions = << >>
         /\ ~Returned(s)
         /\ ~MainShown(s)
         /\ ~ChartShown(s)
         /\ \A i \in DOMAIN run[s].log : run[s].log[i].what # run[s].failed_at

\* C4, the step part: after a failure the run does nothing more (no retry, no
\* recovery); only a new run, started by the user, follows.
C4_NoRetry ==
  \A s \in Sessions :
    run[s].pc = "error" =>
      /\ run'[s] = run[s] \/ run'[s] = FreshRun
      /\ page'[s] = page[s] \/ page'[s] = FreshPage

\* C4: a failure of image decoding, model loading, preprocessing, the forward
\* pass or decoding propagates out of the run: no retry, no prediction list,
\* neither the main prediction nor the chart rendered.
C4_Failure == [](C4_Propagates) /\ [][C4_NoRetry]_vars

\* a forward pass failed in one session and a model load in the other
C4_Witness ==
  /\ run[1].pc = "error" /\ run[1].failed_at = "predict"
  /\ page[1].progress_bar = ClassifyingValue
  /\ run[2].pc = "error" /\ run[2].failed_at = "instantiate"

\* no first call of get_model on profile m is running
NoneLoading(m) == \A t \in Sessions : ~Loading(t, m)

\* C5, the state part: whatever the interleaving, the network a session got
\* from get_model, and classifies with, is the selected architecture with the
\* ImageNet weights, so two sessions on one profile differ at most in the
\* instance they hold.
C5_SameWeights ==
  \A s \in Sessions :
    \A h \in { run[s].model, run[s].created } :
      h # NoModel =>
        /\ h.weights = "imagenet"
        /\ h.arch = registry[run[s].selected_model].keras_application
        /\ Rank(run[s].pc) >= 5
        /\ \A t \in Sessions :
             Holds(t, run[s].selected_model) =>
               [run[t].model EXCEPT !.id = 0] = [h EXCEPT !.id = 0]

\* C5, the step part: once a handle is cached and no first call is running any
\* more, no step instantiates the network again, and get_model returns the
\* cached handle.
C5_Reuse ==
  \A m \in Profiles :
    (cache[m] # NoModel /\ NoneLoading(m)) =>
      /\ loads'[m] = loads[m]
      /\ cache'[m] = cache[m]
      /\ NoneLoading(m)'
      /\ \A s \in Sessions :
           (HitStep(s) /\ run[s].selected_model = m) => run'[s].model = cache[m]

\* C5: two sessions may both instantiate a profile's network; each gets the
\* selected architecture with the ImageNet weights and classifies with it, and
\* once the first calls are over later calls reuse the cached handle.
C5_Concurrent == [](C5_SameWeights) /\ [][C5_Reuse]_vars

\* both sessions instantiated the same profile's network, each classified with
\* its own instance, and a later run reuses the cached one
C5_Witness ==
  \E m \in Profiles :
    /\ loads[m] = 2
    /\ overlapped[m]
    /\ NoneLoading(m)
    /\ Holds(1, m) /\ Holds(2, m)
    /\ run[1].model # firstReturned[m]
    /\ run[1].model = cache[m]
    /\ MainShown(1)
    /\ run[2].model = cache[m]

\* C8: the list get_top_predictions returns is the decoder's list for the
\* one image of the batch, unchanged: at most Top = 5 entries, by
\* non-increasing probability, each probability in [0, 1], summing to at most 1.
C8_TopPredictions ==
  \A s \in Sessions :
    Returned(s) =>
      LET predictions == run[s].predictions
          prob == [i \in DOMAIN predictions |-> predictions[i][3]]
      IN /\ Len(run[s].raw_predictions) = 1
         /\ predictions = decode_predictions(run[s].raw_predictions)[1]
         /\ Len(predictions) <= 5
         /\ Len(predictions) = IF NumClasses < Top THEN NumClasses ELSE Top
         /\ \A i \in DOMAIN prob : prob[i] >= 0 /\ prob[i] <= ProbScale
         /\ \A i \in DOMAIN prob : \A j \in DOMAIN prob :
              i < j => prob[i] >= prob[j]
         /\ SumOver(prob, DOMAIN prob) <= ProbScale
         /\ \A i \in DOMAIN predictions :
              \E c \in Classes :
                /\ predictions[i][1] = ClassEntry(c)[1]
                /\ predictions[i][2] = ClassEntry(c)[2]
                /\ predictions[i][3] = run[s].raw_predictions[1][c]

\* a returned list of five entries out of more classes, with a strict drop
C8_Witness ==
  /\ Returned(1)
  /\ Len(run[1].predictions) = 5
  /\ NumClasses > 5
  /\ run[1].predictions[1][3] > run[1].predictions[5][3]

\* C9: the registry is at all times the list it was built as: six entries in
\* their order, names unique, every input_shape two positive integers.
C9_Registry ==
  /\ registry = KERAS_APPLICATIONS
  /\ [i \in DOMAIN registry |-> registry[i].name]
       = << "ResNet50", "VGG16", "VGG19", "InceptionV3", "Xception",
            "MobileNetV2" >>
  /\ \A i \in DOMAIN registry : \A j \in DOMAIN registry :
       registry[i].name = registry[j].name => i = j
  /\ \A i \in DOMAIN registry :
       /\ Len(registry[i].input_shape) = 2
       /\ \A k \in 1..2 :
            registry[i].input_shape[k] \in Nat \ {0}
       /\ registry[i].preprocess_input_func
            = IF registry[i].input_shape = << 299, 299 >>
                THEN "inception_v3.preprocess_input"
                ELSE "imagenet_utils.preprocess_input"

\* every kind of operation has run: a pick, an upload, get_model with a load,
\* get_top_predictions and both formatters
C9_Witness ==
  /\ registry = KERAS_APPLICATIONS
  /\ widgets[1].selectbox # SelectOrder[1]
  /\ loads[widgets[1].selectbox] > 0
  /\ MainShown(1) /\ ChartShown(1)
  /\ run[2].pc = "error"

\* the value of the last progress report of the run, -1 if there is none
LastReport(s) ==
  LET r == Reports(run[s].log)
  IN IF r = << >> THEN -1 ELSE r[Len(r)].value

\* C10, the state part: the two placeholders are filled and emptied together;
\* they are filled exactly while the last report of the run is non-zero, and
\* they are empty whenever the main prediction or the chart is on the page.
C10_Indicator ==
  \A s \in Sessions :
    /\ page[s].progress_bar = 0 <=> page[s].progress = << >>
    /\ page[s].progress_bar # 0 <=> LastReport(s) > 0
    /\ page[s].progress_bar # 0 => page[s].progress_bar = LastReport(s)
    /\ MainShown(s) \/ ChartShown(s) =>
         /\ page[s].progress_bar = 0
         /\ page[s].progress = << >>
         /\ LastReport(s) = 0

\* C10, the step part: within a run a filled placeholder is emptied only by
\* the report of the value 0.
C10_Cleared ==
  \A s \in Sessions :
    (page[s].progress_bar # 0 /\ page'[s].progress_bar = 0 /\ run'[s] # FreshRun)
      => run'[s].log = Append(run[s].log, Reported(0))

\* C10: the progress bar and message are filled only by a non-zero report and
\* emptied, both together, by the report of 0; when the main prediction and
\* the chart are rendered both are empty.
C10_Progress == [](C10_Indicator) /\ [][C10_Cleared]_vars

\* results on the page after the indicator was shown and cleared
C10_Witness ==
  /\ MainShown(1) /\ ChartShown(1)
  /\ page[1].progress_bar = 0 /\ page[1].progress = << >>
  /\ Len(Reports(run[1].log)) = 4
  /\ page[2].progress_bar = ProcessingValue
  /\ page[2].progress = ProcessingMessage

====
